---- MODULE Spec2Model ----
(***************************************************************************)
(* Movie watchlist (Flask): the session/auth gate, the watchlist store and *)
(* the TMDB aggregation, as a state machine.                               *)
(*                                                                         *)
(*   users, movies : the two MongoDB collections (current_app.db.user,     *)
(*                   current_app.db.movie)                                 *)
(*   session       : the Flask session of the browser                      *)
(*   reqs          : requests between two of their store accesses, each    *)
(*                   with the session it came with                         *)
(*   added         : the add requests that have completed                  *)
(*   response      : the last response a handler returned, with the        *)
(*                   session its request came with                         *)
(*   tmdb          : the last get_full_movie_info call (SpecTmdb)          *)
(***************************************************************************)
EXTENDS Integers, Sequences, FiniteSets, TLC

VARIABLES users, movies, session, reqs, added, response, tmdb

vars == <<users, movies, session, reqs, added, response, tmdb>>

(* ---------------- bounds of the model ---------------- *)
MaxUsers == 2
MaxMovies == 2
MaxInflight == 2
SmallUsers == 1
SmallMovies == 1
SmallInflight == 1
MaxVideos == 3

(* ---------------- values ---------------- *)
\* Python's None, and a key that is not in a dict
None == "None"
Absent == "absent"
\* None where an object was asked for (find_one, get_movie_details, ...)
NoObject == [none |-> TRUE]

Emails == {"a@x", "b@x"}
Passwords == {"p", "q"}
Titles == {"t1", "t2"}
\* request.args.get("rating"): a decimal string, or None when the argument is missing
RatingArgs == {"5", None}
\* datetime.datetime.today()
Times == {"today"}
\* uuid.uuid4().hex: the n-th id drawn
UserIdOf(n) == "u" \o ToString(n)
MovieIdOf(n) == "m" \o ToString(n)
MovieIds == {MovieIdOf(n) : n \in 1..MaxMovies}

(* ---------------- session (flask.session, a dict) ---------------- *)
\* session.get(key): None for a missing key
SessionGet(s, key) == IF s[key] = Absent THEN None ELSE s[key]

\* Python truthiness of session.get(key) (the values here are None or non-empty)
Truthy(v) == v # None

EmptySession == [user_id |-> Absent, email |-> Absent, theme |-> Absent]

(* ---------------- password hashing (passlib) ---------------- *)
Hash(pw) == <<"pbkdf2_sha256", pw>>
Verify(pw, h) == h = Hash(pw)

(* ---------------- store primitives (pymongo) ---------------- *)
\* db.user.find_one({"email": e}): the first matching document, or None
RECURSIVE FindFrom(_, _, _)
FindFrom(us, e, i) ==
    IF i > Len(us) THEN NoObject
    ELSE IF us[i].email = e THEN us[i]
    ELSE FindFrom(us, e, i + 1)

FindUserByEmail(us, e) == FindFrom(us, e, 1)

\* db.movie.find_one({"_id": id})
FindMovie(ms, id) == IF id \in DOMAIN ms THEN ms[id] ELSE NoObject

\* uuid.uuid4().hex: an id no document has yet
NewUserId(us) == UserIdOf(Len(us) + 1)
NewMovieId(ms) == MovieIdOf(Cardinality(DOMAIN ms) + 1)

InsertMovieNone(ms, id, doc) == ms

\* db.movie.insert_one(doc)
InsertMovie(ms, id, doc) == [i \in DOMAIN ms \cup {id} |-> IF i = id THEN doc ELSE ms[i]]

\* db.movie.update_one({"_id": id}, {"$set": fields}): no match, no change
SetMovie(ms, id, fields) ==
    IF id \in DOMAIN ms
    THEN [ms EXCEPT ![id] = [k \in DOMAIN ms[id] |->
                                IF k \in DOMAIN fields THEN fields[k] ELSE ms[id][k]]]
    ELSE ms

PushMovieLost(us, uid, mid) ==
    [i \in DOMAIN us |-> IF us[i]._id = uid THEN [us[i] EXCEPT !.movies = <<mid>>] ELSE us[i]]

\* db.user.update_one({"_id": uid}, {"$push": {"movies": mid}})
PushMovie(us, uid, mid) ==
    [i \in DOMAIN us |->
        IF us[i]._id = uid THEN [us[i] EXCEPT !.movies = Append(@, mid)] ELSE us[i]]

\* db.user.update_one({"_id": uid}, {"$set": {"name": n, ...}})
SetProfile(us, uid, n) ==
    [i \in DOMAIN us |-> IF us[i]._id = uid THEN [us[i] EXCEPT !.name = n] ELSE us[i]]

(* ---------------- responses ---------------- *)
\* s is the session the request came with
Redirect(op, s, to, fl) ==
    [op |-> op, before |-> s, status |-> "redirect", to |-> to, flash |-> fl]
Render(op, s, tpl, fl) ==
    [op |-> op, before |-> s, status |-> "render", to |-> tpl, flash |-> fl]
\* an exception no handler catches: Flask answers 500
Fault(op, s, exc) ==
    [op |-> op, before |-> s, status |-> "fault", to |-> exc, flash |-> "none"]
NoResponse ==
    [op |-> "none", before |-> EmptySession, status |-> "none", to |-> "none", flash |-> "none"]

NoTmdb == [up |-> NoObject, out |-> NoObject]

Init ==
    /\ users = <<>>
    /\ movies = [i \in {} |-> NoObject]
    /\ session = EmptySession
    /\ reqs = {}
    /\ added = {}
    /\ response = NoResponse
    /\ tmdb = NoTmdb

(* ---------------- the login_required decorator ---------------- *)
LoginRequiredOff(s) == FALSE

\* TRUE when route_wrapper answers with the redirect instead of calling the route
LoginRequired(s) == SessionGet(s, "email") = None

GuardRedirect(op) ==
    /\ LoginRequired(session)
    /\ response' = Redirect(op, session, "login", "none")
    /\ UNCHANGED <<users, movies, session, reqs, added, tmdb>>

(* ---------------- register, login, logout, toggle_theme ---------------- *)
Register(maxUsers) ==
    \/ /\ Truthy(SessionGet(session, "email"))
       /\ response' = Redirect("register", session, "home", "none")
       /\ UNCHANGED <<users, movies, session, reqs, added, tmdb>>
    \/ /\ ~Truthy(SessionGet(session, "email"))
       /\ response' = Render("register", session, "register.html", "none")
       /\ UNCHANGED <<users, movies, session, reqs, added, tmdb>>
    \/ /\ ~Truthy(SessionGet(session, "email"))
       /\ Len(users) < maxUsers
       /\ \E e \in Emails, pw \in Passwords :
            users' = Append(users, [_id |-> NewUserId(users), email |-> e,
                                    password |-> Hash(pw), movies |-> <<>>, name |-> ""])
       /\ response' = Redirect("register", session, "login", "success")
       /\ UNCHANGED <<movies, session, reqs, added, tmdb>>

LoginSessionSwapped(s, user) == [s EXCEPT !.user_id = user.email, !.email = user._id]

\* session["user_id"] = user._id; session["email"] = user.email
LoginSession(s, user) == [s EXCEPT !.user_id = user._id, !.email = user.email]

LoginVerifyAny(pw, user) == TRUE

\* user and pbkdf2_sha256.verify(form.password.data, user.password)
LoginVerify(pw, user) == Verify(pw, user.password)

\* the POST of a valid form from a session with no email
LoginSubmit(e, pw) ==
    /\ ~Truthy(SessionGet(session, "email"))
    /\ LET user_data == FindUserByEmail(users, e) IN
       IF user_data = NoObject
       THEN /\ response' = Redirect("login", session, "login", "danger")
            /\ UNCHANGED session
       ELSE IF LoginVerify(pw, user_data)
       THEN /\ session' = LoginSession(session, user_data)
            /\ response' = Redirect("login", session, "home", "none")
       ELSE /\ response' = Render("login", session, "login.html", "danger")
            /\ UNCHANGED session
    /\ UNCHANGED <<users, movies, reqs, added, tmdb>>

Login ==
    \/ /\ Truthy(SessionGet(session, "email"))
       /\ response' = Redirect("login", session, "home", "none")
       /\ UNCHANGED <<users, movies, session, reqs, added, tmdb>>
    \/ /\ ~Truthy(SessionGet(session, "email"))
       /\ response' = Render("login", session, "login.html", "none")
       /\ UNCHANGED <<users, movies, session, reqs, added, tmdb>>
    \/ \E e \in Emails, pw \in Passwords : LoginSubmit(e, pw)

LogoutSessionDropTheme(s) == EmptySession

\* current_theme = session.get("theme"); session.clear(); session["theme"] = current_theme
LogoutSession(s) == [EmptySession EXCEPT !.theme = SessionGet(s, "theme")]

Logout ==
    /\ session' = LogoutSession(session)
    /\ response' = Redirect("logout", session, "login", "none")
    /\ UNCHANGED <<users, movies, reqs, added, tmdb>>

ToggleStuck(s) == [s EXCEPT !.theme = "dark"]

\* dark -> light, anything else (light, None, no theme yet) -> dark
Toggle(s) ==
    IF SessionGet(s, "theme") = "dark"
    THEN [s EXCEPT !.theme = "light"]
    ELSE [s EXCEPT !.theme = "dark"]

ToggleTheme ==
    /\ session' = Toggle(session)
    /\ response' = Redirect("toggle_theme", session, "current_page", "none")
    /\ UNCHANGED <<users, movies, reqs, added, tmdb>>

(* ---------------- TMDB client (tmdb.py) ---------------- *)
VideoTypes == {"Trailer", "Teaser", "Clip"}
Sites == {"YouTube", "Vimeo"}

\* str.lower() on the hosting sites of the model
Lower(site) == IF site = "YouTube" THEN "youtube" ELSE IF site = "Vimeo" THEN "vimeo" ELSE site

\* TMDBVideo.youtube_url
YoutubeUrl(v) == IF Lower(v.site) = "youtube" THEN "https://www.youtube.com/embed/" \o v.key ELSE None

SortKeyTrailerOnly(v) == <<v.type # "Trailer", FALSE>>

\* the sort key of get_movie_videos: (type != "Trailer", type != "Teaser"), tuples
\* compared lexicographically with False < True
SortKey(v) == <<v.type # "Trailer", v.type # "Teaser">>
BoolLess(a, b) == ~a /\ b
KeyLess(k1, k2) == BoolLess(k1[1], k2[1]) \/ (k1[1] = k2[1] /\ BoolLess(k1[2], k2[2]))

\* list.sort(key=...): a stable sort, here by insertion
RECURSIVE InsertSorted(_, _)
InsertSorted(sorted, v) ==
    IF sorted = <<>> THEN <<v>>
    ELSE IF KeyLess(SortKey(v), SortKey(sorted[Len(sorted)]))
    THEN Append(InsertSorted(SubSeq(sorted, 1, Len(sorted) - 1), v), sorted[Len(sorted)])
    ELSE Append(sorted, v)

RECURSIVE SortVideos(_)
SortVideos(vs) ==
    IF vs = <<>> THEN <<>>
    ELSE InsertSorted(SortVideos(SubSeq(vs, 1, Len(vs) - 1)), vs[Len(vs)])

\* get_movie_details: the TMDBMovie, or None on a RequestException
GetMovieDetails(up) == IF up.details_ok THEN [title |-> up.title] ELSE NoObject

\* get_movie_credits: the cast, or [] on a RequestException
GetMovieCredits(up) == IF up.credits_ok THEN up.cast ELSE <<>>

\* get_movie_videos: the videos, trailers first, or [] on a RequestException
GetMovieVideos(up) == IF up.videos_ok THEN SortVideos(up.videos) ELSE <<>>

\* for video in videos: if video.youtube_url: trailer = video; break
RECURSIVE FirstTrailer(_, _)
FirstTrailer(vs, i) ==
    IF i > Len(vs) THEN NoObject
    ELSE IF YoutubeUrl(vs[i]) # None THEN vs[i]
    ELSE FirstTrailer(vs, i + 1)

FullInfo(up) ==
    [movie |-> GetMovieDetails(up), cast |-> GetMovieCredits(up),
     videos |-> GetMovieVideos(up), trailer |-> FirstTrailer(GetMovieVideos(up), 1)]

GetFullMovieInfoEager(up) ==
    [result |-> IF GetMovieDetails(up) = NoObject THEN NoObject ELSE FullInfo(up),
     calls |-> <<"details", "credits", "videos">>]

\* get_full_movie_info: the aggregate and, in order, the client calls it made
GetFullMovieInfo(up) ==
    IF GetMovieDetails(up) = NoObject
    THEN [result |-> NoObject, calls |-> <<"details">>]
    ELSE [result |-> FullInfo(up), calls |-> <<"details", "credits", "videos">>]

\* what the remote service can answer to the three calls for one movie id
SeqsUpTo(S, n) == UNION {[1..k -> S] : k \in 0..n}
VideoSeqs ==
    {[i \in DOMAIN ts |-> [key |-> "k" \o ToString(i), type |-> ts[i][1], site |-> ts[i][2]]] :
        ts \in SeqsUpTo(VideoTypes \X Sites, MaxVideos)}
Upstreams ==
    {[details_ok |-> d, title |-> IF d THEN "t1" ELSE "", credits_ok |-> c, cast |-> cs,
      videos_ok |-> v, videos |-> vs] :
        d \in BOOLEAN, c \in BOOLEAN, cs \in {<<>>, <<"actor">>}, v \in BOOLEAN, vs \in VideoSeqs}
\* the answers the import handlers of Spec are run on
ImportUpstreams ==
    {up \in Upstreams : up.credits_ok /\ up.videos_ok /\ up.cast = <<"actor">>
                        /\ up.videos = <<>>}

(* ---------------- the login-required handlers ---------------- *)
\* Movie(_id=..., title=...): the other fields take the dataclass defaults
NewMovie(title) == [title |-> title, rating |-> 0, last_watched |-> None]

\* int(request.args.get("rating")) for the arguments of the model
IntOf(arg) == IF arg = "5" THEN 5 ELSE 0

\* the model's bounds on the requests in flight and on the movies inserted
CanStart(maxInflight) == Cardinality(reqs) < maxInflight
CanInsert(maxMovies, maxInflight) ==
    Cardinality(DOMAIN movies) < maxMovies /\ CanStart(maxInflight)

Index ==
    \/ GuardRedirect("index")
    \/ /\ ~LoginRequired(session)
       /\ response' = IF FindUserByEmail(users, SessionGet(session, "email")) = NoObject
                      THEN Fault("index", session, "TypeError")
                      ELSE Render("index", session, "index.html", "none")
       /\ UNCHANGED <<users, movies, session, reqs, added, tmdb>>

AddMovie(maxMovies, maxInflight) ==
    \/ GuardRedirect("add_movie")
    \/ /\ ~LoginRequired(session)
       /\ response' = Render("add_movie", session, "new_movie.html", "none")
       /\ UNCHANGED <<users, movies, session, reqs, added, tmdb>>
    \/ /\ ~LoginRequired(session)
       /\ CanInsert(maxMovies, maxInflight)
       /\ \E t \in Titles :
            LET mid == NewMovieId(movies) IN
            /\ movies' = InsertMovie(movies, mid, NewMovie(t))
            /\ reqs' = reqs \cup {[op |-> "add_movie", session |-> session,
                                   mid |-> mid, doc |-> NoObject]}
       /\ UNCHANGED <<users, session, added, response, tmdb>>

\* add_from_tmdb and add_featured up to their insert_one
Import(op, notfound, maxMovies, maxInflight) ==
    \/ GuardRedirect(op)
    \/ /\ ~LoginRequired(session)
       /\ \E up \in ImportUpstreams :
            GetFullMovieInfo(up).result = NoObject
       /\ response' = Redirect(op, session, notfound, "danger")
       /\ UNCHANGED <<users, movies, session, reqs, added, tmdb>>
    \/ /\ ~LoginRequired(session)
       /\ CanInsert(maxMovies, maxInflight)
       /\ \E up \in ImportUpstreams :
            LET movie_info == GetFullMovieInfo(up).result
                mid == NewMovieId(movies) IN
            /\ movie_info # NoObject
            /\ movies' = InsertMovie(movies, mid, NewMovie(movie_info.movie.title))
            /\ reqs' = reqs \cup {[op |-> op, session |-> session,
                                   mid |-> mid, doc |-> NoObject]}
       /\ UNCHANGED <<users, session, added, response, tmdb>>

AddFromTmdb(maxMovies, maxInflight) == Import("add_from_tmdb", "search", maxMovies, maxInflight)
AddFeatured(maxMovies, maxInflight) == Import("add_featured", "home", maxMovies, maxInflight)

AddOps == {"add_movie", "add_from_tmdb", "add_featured"}

\* the response of an add request after its $push
AddResponse(op, s) ==
    IF op = "add_movie" THEN Redirect(op, s, "movie", "none")
    ELSE IF op = "add_from_tmdb" THEN Redirect(op, s, "movie", "success")
    ELSE Fault(op, s, "BuildError")

\* the second write of add_movie, add_from_tmdb and add_featured, and their return
AddPush ==
    \E r \in reqs :
        /\ r.op \in AddOps
        /\ users' = PushMovie(users, SessionGet(r.session, "user_id"), r.mid)
        /\ reqs' = reqs \ {r}
        /\ added' = added \cup {[uid |-> SessionGet(r.session, "user_id"), mid |-> r.mid,
                                 raced |-> \E q \in reqs :
                                              /\ q # r
                                              /\ q.op \in AddOps
                                              /\ q.session.user_id = r.session.user_id]}
        /\ response' = AddResponse(r.op, r.session)
        /\ UNCHANGED <<movies, session, tmdb>>

EditMovie(maxInflight) ==
    \/ GuardRedirect("edit_movie")
    \/ /\ ~LoginRequired(session)
       /\ \E id \in MovieIds :
            LET movie == FindMovie(movies, id) IN
            \/ /\ movie = NoObject
               /\ response' = Fault("edit_movie", session, "TypeError")
               /\ UNCHANGED reqs
            \/ /\ movie # NoObject
               /\ response' = Render("edit_movie", session, "movie_form.html", "none")
               /\ UNCHANGED reqs
            \/ /\ movie # NoObject
               /\ CanStart(maxInflight)
               /\ \E t \in Titles :
                    reqs' = reqs \cup {[op |-> "edit_movie", session |-> session,
                                        mid |-> id, doc |-> [movie EXCEPT !.title = t]]}
               /\ UNCHANGED response
       /\ UNCHANGED <<users, movies, session, added, tmdb>>

\* update_one({"_id": movie._id}, {"$set": asdict(movie)}) of edit_movie, and its return
EditWrite ==
    \E r \in reqs :
        /\ r.op = "edit_movie"
        /\ movies' = SetMovie(movies, r.mid, r.doc)
        /\ reqs' = reqs \ {r}
        /\ response' = Redirect("edit_movie", r.session, "movie", "none")
        /\ UNCHANGED <<users, session, added, tmdb>>

MovieDetails ==
    /\ \E id \in MovieIds :
         IF FindMovie(movies, id) = NoObject
         THEN response' = Fault("movie", session, "TypeError")
         ELSE response' = Render("movie", session, "movie_details.html", "none")
    /\ UNCHANGED <<users, movies, session, reqs, added, tmdb>>

RateMovie ==
    \/ GuardRedirect("rate_movie")
    \/ /\ ~LoginRequired(session)
       /\ \E id \in MovieIds, arg \in RatingArgs :
            IF arg = None
            THEN /\ response' = Fault("rate_movie", session, "TypeError")
                 /\ UNCHANGED movies
            ELSE /\ movies' = SetMovie(movies, id, [rating |-> IntOf(arg)])
                 /\ response' = Redirect("rate_movie", session, "movie", "none")
       /\ UNCHANGED <<users, session, reqs, added, tmdb>>

WatchToday ==
    \/ GuardRedirect("watch_today")
    \/ /\ ~LoginRequired(session)
       /\ \E id \in MovieIds, now \in Times :
            movies' = SetMovie(movies, id, [last_watched |-> now])
       /\ response' = Redirect("watch_today", session, "movie", "none")
       /\ UNCHANGED <<users, session, reqs, added, tmdb>>

Profile ==
    \/ GuardRedirect("profile")
    \/ /\ ~LoginRequired(session)
       /\ response' = IF FindUserByEmail(users, SessionGet(session, "email")) = NoObject
                      THEN Fault("profile", session, "TypeError")
                      ELSE Render("profile", session, "profile.html", "none")
       /\ UNCHANGED <<users, movies, session, reqs, added, tmdb>>
    \/ /\ ~LoginRequired(session)
       /\ LET user == FindUserByEmail(users, SessionGet(session, "email")) IN
          IF user = NoObject
          THEN /\ response' = Fault("profile", session, "TypeError")
               /\ UNCHANGED users
          ELSE /\ users' = SetProfile(users, user._id, "name")
               /\ response' = Render("profile", session, "profile.html", "success")
       /\ UNCHANGED <<movies, session, reqs, added, tmdb>>

Search ==
    \/ GuardRedirect("search")
    \/ /\ ~LoginRequired(session)
       /\ response' = Render("search", session, "search.html", "none")
       /\ UNCHANGED <<users, movies, session, reqs, added, tmdb>>

TmdbMovie ==
    \/ GuardRedirect("tmdb_movie")
    \/ /\ ~LoginRequired(session)
       /\ \E up \in ImportUpstreams :
            IF GetFullMovieInfo(up).result = NoObject
            THEN response' = Redirect("tmdb_movie", session, "search", "danger")
            ELSE response' = Render("tmdb_movie", session, "tmdb_movie.html", "none")
       /\ UNCHANGED <<users, movies, session, reqs, added, tmdb>>

\* every handler, on a small store
Next ==
    \/ Register(SmallUsers) \/ Login \/ Logout \/ ToggleTheme
    \/ Index \/ AddMovie(SmallMovies, SmallInflight)
    \/ AddFromTmdb(SmallMovies, SmallInflight) \/ AddFeatured(SmallMovies, SmallInflight)
    \/ AddPush \/ EditMovie(SmallInflight) \/ EditWrite \/ MovieDetails
    \/ RateMovie \/ WatchToday \/ Profile \/ Search \/ TmdbMovie

Spec == Init /\ [][Next]_vars

(* ---------------- the session/auth gate on its own ---------------- *)
NextAuth == Register(MaxUsers) \/ Login \/ Logout \/ ToggleTheme

SpecAuth == Init /\ [][NextAuth]_vars

(* ---------------- the watchlist store on its own ---------------- *)
\* the state after two registrations
InitWatch ==
    /\ users = << [_id |-> UserIdOf(1), email |-> "a@x", password |-> Hash("p"),
                   movies |-> <<>>, name |-> ""],
                  [_id |-> UserIdOf(2), email |-> "b@x", password |-> Hash("q"),
                   movies |-> <<>>, name |-> ""] >>
    /\ movies = [i \in {} |-> NoObject]
    /\ session = EmptySession
    /\ reqs = {}
    /\ added = {}
    /\ response = NoResponse
    /\ tmdb = NoTmdb

NextWatch ==
    \/ Login \/ Logout
    \/ AddMovie(MaxMovies, MaxInflight)
    \/ AddFromTmdb(MaxMovies, MaxInflight) \/ AddFeatured(MaxMovies, MaxInflight)
    \/ AddPush

SpecWatch == InitWatch /\ [][NextWatch]_vars

(* ---------------- the aggregator on its own ---------------- *)
\* one call, on any answers of the remote service
CallGetFullMovieInfo ==
    /\ tmdb = NoTmdb
    /\ \E up \in Upstreams : tmdb' = [up |-> up, out |-> GetFullMovieInfo(up)]
    /\ UNCHANGED <<users, movies, session, reqs, added, response>>

NextTmdb == CallGetFullMovieInfo

SpecTmdb == Init /\ [][NextTmdb]_vars

(***************************************************************************)
(* The properties                                                          *)
(***************************************************************************)
Anonymous(s) == SessionGet(s, "email") = None
Authenticated(s) == ~Anonymous(s)
Range(f) == {f[i] : i \in DOMAIN f}

LoginRequiredOps ==
    {"index", "add_movie", "edit_movie", "rate_movie", "watch_today", "profile",
     "search", "tmdb_movie", "add_from_tmdb", "add_featured"}

\* a step of Spec in which a login-required route is requested
GuardedRequest ==
    \/ Index \/ AddMovie(SmallMovies, SmallInflight)
    \/ AddFromTmdb(SmallMovies, SmallInflight) \/ AddFeatured(SmallMovies, SmallInflight)
    \/ EditMovie(SmallInflight) \/ RateMovie \/ WatchToday
    \/ Profile \/ Search \/ TmdbMovie

\* C1: a login-required route requested from an anonymous session answers with
\* the redirect to login; the route's body does not run (no request is started,
\* no other response is built) and users, movies and the session stay as they are.
C1_RouteGuard ==
    [][(Anonymous(session) /\ GuardedRequest) =>
          /\ response'.op \in LoginRequiredOps
          /\ response'.status = "redirect" /\ response'.to = "login"
          /\ UNCHANGED <<users, movies, session, reqs, added>>]_vars

\* the guard has answered an anonymous request while the store held documents
C1_Witness ==
    /\ response.op \in LoginRequiredOps
    /\ Anonymous(response.before)
    /\ response.status = "redirect" /\ response.to = "login"
    /\ Anonymous(session)
    /\ users # <<>> /\ DOMAIN movies # {}

\* the credentials login rejects: no user has the email, or the password does not
\* verify against the hash of the user found
BadCredentials(e, pw) ==
    LET user_data == FindUserByEmail(users, e) IN
    user_data = NoObject \/ ~Verify(pw, user_data.password)

\* C2: a login from an anonymous session with an unknown email or a password that
\* does not verify is answered with the "danger" flash (InvalidCredentials) and
\* changes neither the session (user_id, email, theme) nor the store.
C2_LoginFails ==
    [][\A e \in Emails, pw \in Passwords :
          (Anonymous(session) /\ BadCredentials(e, pw) /\ LoginSubmit(e, pw)) =>
             /\ response'.op = "login" /\ response'.flash = "danger"
             /\ session' = session
             /\ Anonymous(session')
             /\ UNCHANGED <<users, movies>>]_vars

\* a wrong password for a registered email has been rejected
C2_Witness ==
    /\ response = Render("login", session, "login.html", "danger")
    /\ Anonymous(session)
    /\ users # <<>>

\* the session is bound to nobody, or to the id and email of one user document
C3_Bound ==
    \/ session.user_id = Absent /\ session.email = Absent
    \/ /\ session.user_id # Absent /\ session.email # Absent
       /\ \E i \in DOMAIN users :
            users[i]._id = session.user_id /\ users[i].email = session.email

\* the only step from Anonymous to Authenticated is a login whose password verified
C3_OnlyLogin ==
    (Anonymous(session) /\ Authenticated(session')) =>
        \E e \in Emails, pw \in Passwords : ~BadCredentials(e, pw) /\ LoginSubmit(e, pw)

\* C3: user_id and email are both absent or both present in the session, and then
\* are those of one existing user; only a verified login authenticates a session.
C3_SessionBinding == []C3_Bound /\ [][C3_OnlyLogin]_vars

\* a session bound to the second of two registered users
C3_Witness ==
    /\ Len(users) = 2
    /\ session.user_id = users[2]._id /\ session.email = users[2].email
    /\ response.op = "login" /\ Anonymous(response.before)

\* C4: logout of an authenticated session removes user_id and email, keeps the
\* theme session.get("theme") gives, and leaves the store as it is.
C4_Logout ==
    [][(Authenticated(session) /\ Logout) =>
          /\ session'.user_id = Absent /\ session'.email = Absent
          /\ Anonymous(session')
          /\ SessionGet(session', "theme") = SessionGet(session, "theme")
          /\ UNCHANGED <<users, movies>>]_vars

\* an authenticated session with a theme set has been logged out
C4_Witness ==
    /\ response.op = "logout"
    /\ Authenticated(response.before)
    /\ response.before.theme \in {"dark", "light"}
    /\ session.theme = response.before.theme
    /\ Anonymous(session)

\* the second of two toggle_theme requests in a row
SecondToggle == response.op = "toggle_theme" /\ ToggleTheme

\* C5, as claimed: two toggle_theme requests in a row return the theme to the value
\* it had before the first, also in a session in which no theme was set.
C5_ToggleTwice ==
    [][SecondToggle =>
          SessionGet(session', "theme") = SessionGet(response.before, "theme")]_vars

\* C5, amended: two toggle_theme requests in a row return a theme of "dark" or
\* "light" to its value; from a session with no theme (or None) they give "light".
C5_ToggleTwiceAmended ==
    [][SecondToggle =>
          LET t0 == SessionGet(response.before, "theme") IN
          IF t0 \in {"dark", "light"}
          THEN SessionGet(session', "theme") = t0
          ELSE SessionGet(session', "theme") = "light"]_vars

\* the theme after a toggle of "light", itself the result of a toggle
C5_Witness ==
    /\ response.op = "toggle_theme"
    /\ response.before.theme = "light"
    /\ session.theme = "dark"

\* C6: no two user documents share an email.
C6_UniqueEmail ==
    \A i, j \in DOMAIN users : users[i].email = users[j].email => i = j

\* C7: every id in every user's watchlist is the id of a movie document, in every
\* state, the ones between an add's insert_one and its $push included.
C7_WatchlistIntegrity ==
    \A i \in DOMAIN users : Range(users[i].movies) \subseteq DOMAIN movies

\* a watchlist holds a movie while another add is between its two writes
C7_Witness ==
    /\ \E i \in DOMAIN users : users[i].movies # <<>>
    /\ \E r \in reqs : r.op \in AddOps

\* C8: the movie of every completed add request is in the watchlist of the user
\* the request's session was bound to, whatever ran between its two writes.
C8_NoLostUpdate ==
    \A a \in added :
        \E i \in DOMAIN users : users[i]._id = a.uid /\ a.mid \in Range(users[i].movies)

\* two adds of one user have completed, the first while the second was in flight
C8_Witness ==
    \E a, b \in added :
        /\ a.mid # b.mid /\ a.uid = b.uid /\ a.raced
        /\ \E i \in DOMAIN users :
             users[i]._id = a.uid /\ {a.mid, b.mid} \subseteq Range(users[i].movies)

\* C9: a request for the details or the edit form of a movie id with no document
\* does not end in an unhandled exception.
C9_NotFoundHandled ==
    response.op \in {"movie", "edit_movie"} => response.status # "fault"

\* C10: when get_movie_details gives None the aggregate is None and only the
\* details call was made; otherwise the aggregate is there and the details call
\* came first, before the credits and the videos call.
C10_AbsentForAbsent ==
    tmdb.up # NoObject =>
        IF GetMovieDetails(tmdb.up) = NoObject
        THEN /\ tmdb.out.result = NoObject
             /\ "credits" \notin Range(tmdb.out.calls)
             /\ "videos" \notin Range(tmdb.out.calls)
        ELSE /\ tmdb.out.result # NoObject
             /\ tmdb.out.calls[1] = "details"
             /\ \E i, j \in 2..Len(tmdb.out.calls) :
                  tmdb.out.calls[i] = "credits" /\ tmdb.out.calls[j] = "videos"

\* the details call failed for a movie whose credits and videos would have answered
C10_Witness ==
    /\ tmdb.up # NoObject
    /\ ~tmdb.up.details_ok /\ tmdb.up.credits_ok /\ tmdb.up.videos_ok
    /\ tmdb.up.videos # <<>>
    /\ tmdb.out.result = NoObject

\* the group of a video: trailers, then teasers, then every other type
Group(v) == IF v.type = "Trailer" THEN 1 ELSE IF v.type = "Teaser" THEN 2 ELSE 3

\* the place of video v in the sequence the remote service returned
PlaceIn(vs, v) == CHOOSE i \in DOMAIN vs : vs[i] = v

\* C11: the videos get_movie_videos returns are a permutation of the ones the
\* remote service returned, trailers before teasers before the other types, the
\* videos of one group in the order the service gave them.
C11_VideosSorted ==
    (tmdb.up # NoObject /\ tmdb.up.details_ok /\ tmdb.up.videos_ok) =>
        LET given == tmdb.up.videos
            got == tmdb.out.result.videos IN
        /\ Len(got) = Len(given)
        /\ Range(got) = Range(given)
        /\ \A i, j \in DOMAIN got :
             i < j => \/ Group(got[i]) < Group(got[j])
                      \/ /\ Group(got[i]) = Group(got[j])
                         /\ PlaceIn(given, got[i]) < PlaceIn(given, got[j])

\* a clip, a teaser and a trailer, returned in that order, came back reversed
C11_Witness ==
    /\ tmdb.up # NoObject /\ tmdb.up.details_ok /\ tmdb.up.videos_ok
    /\ Len(tmdb.up.videos) = 3
    /\ tmdb.up.videos[1].type = "Clip"
    /\ tmdb.up.videos[2].type = "Teaser"
    /\ tmdb.up.videos[3].type = "Trailer"
    /\ tmdb.out.result.videos[1].type = "Trailer"
    /\ tmdb.out.result.videos[2].type = "Teaser"
    /\ tmdb.out.result.videos[3].type = "Clip"

ImportOps == {"add_from_tmdb", "add_featured"}

\* C12: an import request of an authenticated user ends in a redirect, and when
\* the aggregate was there (the movie was inserted and its id pushed) the movie
\* is in the user's watchlist; none ends in an unhandled exception after its writes.
C12_ImportEndsNormally ==
    (response.op \in ImportOps /\ Authenticated(response.before)) =>
        /\ response.status = "redirect"
        /\ response.to \in {"movie", "watchlist"} =>
             \E a \in added, i \in DOMAIN users :
                /\ users[i]._id = a.uid
                /\ a.mid \in Range(users[i].movies) /\ a.mid \in DOMAIN movies

\* C13: the write of an edit leaves the rating and the last-watched time of every
\* movie as the store holds them, whatever rate_movie or watch_today wrote
\* since the edit read the movie.
C13_EditKeepsRating ==
    [][EditWrite =>
          \A id \in DOMAIN movies :
             /\ movies'[id].rating = movies[id].rating
             /\ movies'[id].last_watched = movies[id].last_watched]_vars
====
